---- MODULE Spec2Model ----
(***************************************************************************)
(* A model of main2.py, the "Advanced SEO Checker API": the /analyze       *)
(* handler analyze_url, its four analyzers (analyze_content,               *)
(* analyze_technical, analyze_meta, analyze_images), the scorer            *)
(* calculate_seo_score and the readability helper.                         *)
(*                                                                         *)
(* A Python str is a sequence of one-character strings; a dict is a        *)
(* function whose DOMAIN is its key set; Optional values are None or       *)
(* Some(x); a call that may raise returns Ok(v) or Raise(exception).       *)
(* The network is the environment: every outbound call's outcome is drawn  *)
(* with \E by the action that models the calling function and is recorded  *)
(* in net_log.                                                              *)
(***************************************************************************)
EXTENDS Integers, Sequences, FiniteSets, TLC

VARIABLES
    pc,           \* which function has returned last
    url_input,    \* the URLInput of the request
    soup,         \* the parsed document (BeautifulSoup)
    content,      \* result of analyze_content
    technical,    \* result of analyze_technical
    meta,         \* result of analyze_meta
    images,       \* result of analyze_images
    response,     \* what analyze_url answers: an SEOReport or an HTTPException
    net_log,      \* the outbound network calls made, in order, with their outcome
    text,         \* argument of calculate_readability
    readability,  \* result of calculate_readability
    score,        \* result of calculate_seo_score
    clock         \* datetime.now() as the request saw it, in half days

vars == << pc, url_input, soup, content, technical, meta, images, response,
           net_log, text, readability, score, clock >>

----------------------------------------------------------------------------
(* Bounds of the model *)

\* longest corpus given to calculate_readability
MaxLen == 3
\* most <a> elements of a document
MaxLinks == 2
\* most <img> elements of a document
MaxImgs == 2
\* most entries of a whois creation_date list
MaxDates == 2
\* most og:/twitter: <meta> elements of a document
MaxMetas == 1

----------------------------------------------------------------------------
(* Python values *)

None == [isNone |-> TRUE]
Some(x) == [isNone |-> FALSE, v |-> x]

Ok(v) == [exc |-> "", val |-> v]
Raise(e) == [exc |-> e]
Raised(r) == r.exc # ""

\* nothing has been computed yet
Unset == Raise("unset")

SeqsUpTo(S, n) == UNION { [1..k -> S] : k \in 0..n }

RECURSIVE SumSeq(_)
SumSeq(s) == IF s = <<>> THEN 0 ELSE Head(s) + SumSeq(Tail(s))

Max(a, b) == IF a >= b THEN a ELSE b

\* x in s, for two Python strings
Contains(s, x) ==
    \E i \in 0..(Len(s) - Len(x)) : SubSeq(s, i + 1, i + Len(x)) = x

StartsWith(s, p) == Len(p) <= Len(s) /\ SubSeq(s, 1, Len(p)) = p

EndsWith(s, p) == Len(p) <= Len(s) /\ SubSeq(s, Len(s) - Len(p) + 1, Len(s)) = p

Whitespace == {" "}

\* str.split(): the maximal runs of non-whitespace characters, in order
RECURSIVE SplitWords(_, _, _)
SplitWords(s, cur, acc) ==
    IF s = <<>> THEN (IF cur = <<>> THEN acc ELSE Append(acc, cur))
    ELSE IF Head(s) \in Whitespace
         THEN SplitWords(Tail(s), <<>>, IF cur = <<>> THEN acc ELSE Append(acc, cur))
         ELSE SplitWords(Tail(s), Append(cur, Head(s)), acc)

split(s) == SplitWords(s, <<>>, <<>>)

\* str.lower(), one character
LowerChar(c) ==
    CASE c = "A" -> "a"
      [] c = "E" -> "e"
      [] c = "B" -> "b"
      [] OTHER -> c

lower(s) == [i \in 1..Len(s) |-> LowerChar(s[i])]

----------------------------------------------------------------------------
(* Helper functions (lines 338-384) *)

SentenceDelimiters == {".", "!", "?"}

\* number of maximal runs of delimiter characters in s
DelimiterRuns(s) ==
    Cardinality({ i \in 1..Len(s) :
        /\ s[i] \in SentenceDelimiters
        /\ (i = 1 \/ s[i - 1] \notin SentenceDelimiters) })

\* a plausible slip: the terminators are counted, not the segments they delimit
re_split_len_counts_terminators(s) == DelimiterRuns(s)

\* len(re.split(r'[.!?]+', text)): every run of delimiters separates two
\* segments (empty segments included), so there is one more segment than runs
re_split_len(s) == DelimiterRuns(s) + 1

Vowels == {"a", "e", "i", "o", "u", "y"}

count_syllables(word) ==
    LET w == lower(word)
        first == IF w[1] \in Vowels THEN 1 ELSE 0
        groups == Cardinality({ index \in 2..Len(w) :
                      w[index] \in Vowels /\ w[index - 1] \notin Vowels })
        silent == IF EndsWith(w, <<"e">>) THEN 1 ELSE 0
        count == first + groups - silent
    IN  IF count = 0 THEN 1 ELSE count

\* A float result is the exact rational num/den (den > 0), not reduced.
Rational(n, d) == [num |-> n, den |-> d]
Zero == Rational(0, 1)

\* 206.835 - 1.015 * (words/sentences) - 84.6 * (syllables/words),
\* over the common denominator 1000 * sentences * words
Flesch(words, sentences, syllables) ==
    Rational(206835 * sentences * words
                 - 1015 * words * words
                 - 84600 * syllables * sentences,
             1000 * sentences * words)

calculate_readability(t) ==
    LET sentences == re_split_len(t)
        words == Len(split(t))
        syllables == SumSeq([i \in 1..Len(split(t)) |-> count_syllables(split(t)[i])])
    IN  IF sentences = 0 \/ words = 0 THEN Zero
        ELSE Flesch(words, sentences, syllables)

----------------------------------------------------------------------------
(* Scorer and report composer (lines 77-153) *)

\* technical.load_time is kept in milliseconds; the code compares seconds with 3
SlowLoad(t) == t.load_time > 3 * 1000

deductions(c, t, m, i) ==
    [ load_time       |-> IF SlowLoad(t) THEN 15 ELSE 0,
      mobile_friendly |-> IF ~t.mobile_friendly THEN 10 ELSE 0,
      ssl             |-> IF "error" \in DOMAIN t.ssl_info THEN 10 ELSE 0,
      word_count      |-> IF c.word_count < 300 THEN 10 ELSE 0,
      meta_desc       |-> IF m.meta_description = <<>> THEN 5 ELSE 0,
      broken_links    |-> IF c.broken_links # <<>> THEN 5 ELSE 0,
      missing_alts    |-> IF i.images_without_alt # <<>> THEN 5 ELSE 0 ]

\* sum(deductions.values())
SumValues(d) ==
    LET RECURSIVE Total(_)
        Total(K) == IF K = {} THEN 0
                    ELSE LET k == CHOOSE x \in K : TRUE
                         IN  d[k] + Total(K \ {k})
    IN  Total(DOMAIN d)

\* a plausible slip: the penalties are added to the score instead of subtracted
calculate_seo_score_adds(c, t, m, i) ==
    Max(0, 100 + SumValues(deductions(c, t, m, i)))

calculate_seo_score(c, t, m, i) ==
    Max(0, 100 - SumValues(deductions(c, t, m, i)))

generate_critical_issues(c, t, m, i) ==
    (IF SlowLoad(t) THEN <<"- Slow page load (>3s)">> ELSE <<>>)
    \o (IF ~t.mobile_friendly THEN <<"- Not mobile-friendly">> ELSE <<>>)
    \o (IF c.broken_links # <<>> THEN <<"- Broken links detected">> ELSE <<>>)
    \o (IF Len(i.images_without_alt) > 0 THEN <<"- Images missing alt text">> ELSE <<>>)

generate_recommendations(c, t, m, i) ==
    (IF SlowLoad(t) THEN <<"1. Optimize page speed">> ELSE <<>>)
    \o (IF ~t.mobile_friendly THEN <<"2. Implement responsive design">> ELSE <<>>)
    \o (IF c.word_count < 300 THEN <<"3. Add more quality content">> ELSE <<>>)
    \o (IF i.images_without_alt # <<>> THEN <<"4. Add alt text to images">> ELSE <<>>)

\* the rendered text, kept as the values the template interpolates
generate_seo_report(url, c, t, m, i) ==
    [ url             |-> url,
      score           |-> calculate_seo_score(c, t, m, i),
      critical_issues |-> generate_critical_issues(c, t, m, i),
      recommendations |-> generate_recommendations(c, t, m, i) ]

----------------------------------------------------------------------------
(* The parsed document *)

\* A soup is a record:
\*   title    : None, or Some([string |-> None or Some(str)])   <title>
\*   description, keywords : None, or Some([content |-> None or Some(str)])
\*   canonical: None, or Some([href |-> None or Some(str)])     <link rel=canonical>
\*   metas    : the other <meta> elements, [property, name, content], each Optional
\*   headings : sequence of [level |-> 1..6, text |-> str]
\*   strings  : the other text nodes, stripped and non-empty
\*   anchors  : sequence of [href |-> None or Some(str)]         <a>
\*   imgs     : sequence of [src, alt], each None or Some(str)   <img>
EmptySoup ==
    [ title |-> None, description |-> None, keywords |-> None, canonical |-> None,
      metas |-> <<>>, headings |-> <<>>, strings |-> <<>>, anchors |-> <<>>,
      imgs |-> <<>> ]

OptLen(o, extra) == IF o.isNone THEN 0 ELSE extra + Len(o.v)

\* len(str(soup)): every element is serialized with its tags and attributes
SoupStrLen(sp) ==
    (IF sp.title.isNone THEN 0 ELSE 15 + OptLen(sp.title.v.string, 0))
    + (IF sp.description.isNone THEN 0 ELSE 26 + OptLen(sp.description.v.content, 11))
    + (IF sp.keywords.isNone THEN 0 ELSE 23 + OptLen(sp.keywords.v.content, 11))
    + (IF sp.canonical.isNone THEN 0 ELSE 23 + OptLen(sp.canonical.v.href, 8))
    + SumSeq([k \in 1..Len(sp.metas) |->
          7 + OptLen(sp.metas[k].property, 12) + OptLen(sp.metas[k].name, 8)
            + OptLen(sp.metas[k].content, 11)])
    + SumSeq([k \in 1..Len(sp.headings) |-> 9 + Len(sp.headings[k].text)])
    + SumSeq([k \in 1..Len(sp.strings) |-> Len(sp.strings[k])])
    + SumSeq([k \in 1..Len(sp.anchors) |-> 7 + OptLen(sp.anchors[k].href, 8)])
    + SumSeq([k \in 1..Len(sp.imgs) |->
          6 + OptLen(sp.imgs[k].src, 7) + OptLen(sp.imgs[k].alt, 7)])

\* soup.stripped_strings, in document order: the title's text, the headings', the rest
stripped_strings(sp) ==
    (IF sp.title.isNone \/ sp.title.v.string.isNone \/ sp.title.v.string.v = <<>>
        THEN <<>> ELSE << sp.title.v.string.v >>)
    \o [k \in 1..Len(sp.headings) |-> sp.headings[k].text]
    \o sp.strings

\* ' '.join(parts)
RECURSIVE join(_)
join(parts) ==
    IF parts = <<>> THEN <<>>
    ELSE IF Len(parts) = 1 THEN Head(parts)
    ELSE Head(parts) \o <<" ">> \o join(Tail(parts))

\* urlparse(url).netloc: what stands between "//" and the next "/", "?" or "#"
netloc(url) ==
    LET starts == { k \in 1..(Len(url) - 1) : url[k] = "/" /\ url[k + 1] = "/" }
    IN  IF starts = {} THEN <<>>
        ELSE LET from == (CHOOSE k \in starts : \A j \in starts : k <= j) + 2
                 stops == { k \in from..Len(url) : url[k] \in {"/", "?", "#"} }
                 to == IF stops = {} THEN Len(url)
                       ELSE (CHOOSE k \in stops : \A j \in stops : k <= j) - 1
             IN  SubSeq(url, from, to)

----------------------------------------------------------------------------
(* analyze_content (lines 184-222) *)

\* the density utility imported from main: a mapping from term to its
\* frequency among the words, an exact rational in [0, 1]
calculate_keyword_density(t) ==
    LET words == split(t)
        terms == { words[k] : k \in 1..Len(words) }
    IN  [ w \in terms |->
            Rational(Cardinality({ k \in 1..Len(words) : words[k] = w }), Len(words)) ]

\* soup.find_all('a', href=True): the hrefs of the anchors that have one
hrefs_of(sp) ==
    LET RECURSIVE Pick(_)
        Pick(as) == IF as = <<>> THEN <<>>
                    ELSE IF Head(as).href.isNone THEN Pick(Tail(as))
                    ELSE << Head(as).href.v >> \o Pick(Tail(as))
    IN  Pick(sp.anchors)

\* the try/except around requests.head(href, timeout=5): broken or not
probe_says_broken(outcome) ==
    IF Raised(outcome) THEN TRUE ELSE outcome.val >= 400

HeadCall(target, outcome) == [call |-> "HEAD", target |-> target, outcome |-> outcome]

\* a plausible slip: a probe that raises is swallowed instead of recorded
classify_link_swallows(st, href, domain, outcome) ==
    IF Contains(href, domain)
    THEN [st EXCEPT !.internal_links = Append(@, href)]
    ELSE [st EXCEPT !.external_links = Append(@, href),
                    !.broken_links = IF ~Raised(outcome) /\ outcome.val >= 400
                                     THEN Append(@, href) ELSE @,
                    !.log = Append(@, HeadCall(href, outcome))]

\* a plausible slip: the link is appended to both lists when it is internal
classify_link_both(st, href, domain, outcome) ==
    IF Contains(href, domain)
    THEN [st EXCEPT !.internal_links = Append(@, href),
                    !.external_links = Append(@, href)]
    ELSE [st EXCEPT !.external_links = Append(@, href),
                    !.broken_links = IF probe_says_broken(outcome)
                                     THEN Append(@, href) ELSE @,
                    !.log = Append(@, HeadCall(href, outcome))]

\* one pass of the loop over the links (lines 200-211)
classify_link(st, href, domain, outcome) ==
    IF Contains(href, domain)
    THEN [st EXCEPT !.internal_links = Append(@, href)]
    ELSE [st EXCEPT !.external_links = Append(@, href),
                    !.broken_links = IF probe_says_broken(outcome)
                                     THEN Append(@, href) ELSE @,
                    !.log = Append(@, HeadCall(href, outcome))]

\* the loop; head[k] is what the network answers if link k is probed
RECURSIVE link_loop(_, _, _, _, _)
link_loop(st, links, k, domain, head) ==
    IF k > Len(links) THEN st
    ELSE link_loop(classify_link(st, links[k], domain, head[k]),
                   links, k + 1, domain, head)

heading_structure(sp) ==
    [ i \in 1..6 |->
        LET RECURSIVE Texts(_)
            Texts(hs) == IF hs = <<>> THEN <<>>
                         ELSE IF Head(hs).level = i
                              THEN << Head(hs).text >> \o Texts(Tail(hs))
                              ELSE Texts(Tail(hs))
        IN  Texts(sp.headings) ]

\* returns [result |-> Ok(ContentAnalysis) or Raise(..), log |-> the HEAD calls made]
analyze_content(sp, url, head) ==
    LET t == join(stripped_strings(sp))
        words == split(t)
        domain == netloc(url)
        st == link_loop([internal_links |-> <<>>, external_links |-> <<>>,
                         broken_links |-> <<>>, log |-> <<>>],
                        hrefs_of(sp), 1, domain, head)
    IN  [ log |-> st.log,
          result |->
            IF SoupStrLen(sp) = 0 THEN Raise("ZeroDivisionError")
            ELSE Ok([ word_count |-> Len(words),
                      keyword_density |-> calculate_keyword_density(t),
                      readability_score |-> calculate_readability(t),
                      text_html_ratio |-> Rational(Len(t), SoupStrLen(sp)),
                      heading_structure |-> heading_structure(sp),
                      internal_links |-> st.internal_links,
                      external_links |-> st.external_links,
                      broken_links |-> st.broken_links ]) ]

----------------------------------------------------------------------------
(* analyze_technical (lines 224-280), check_mobile_friendly, check_sitemap *)

\* dict.get(key): None when the key is missing
get(d, key) == IF key \in DOMAIN d THEN Some(d[key]) ELSE None

\* timedelta.days, with time counted in half days: the whole days, rounded down
days(delta) == delta \div 2

NetCall(call, target, outcome) == [call |-> call, target |-> target, outcome |-> outcome]

\* What the TLS probe met: tls.connect and tls.handshake name the exception
\* raised by socket.create_connection / wrap_socket ("" when none), tls.version
\* is ssock.version() and tls.cert is ssock.getpeercert().
tls_failed(tls) ==
    tls.connect # "" \/ tls.handshake # "" \/ "notAfter" \notin DOMAIN tls.cert

SslError == [error |-> "SSL certificate issue detected"]

\* a plausible slip: ssl_info is filled key by key, so a failure on the
\* certificate leaves the version next to the error
ssl_check_key_by_key(tls) ==
    IF tls.connect # "" \/ tls.handshake # "" THEN SslError
    ELSE IF "notAfter" \notin DOMAIN tls.cert
         THEN [version |-> tls.version, error |-> SslError.error]
         ELSE [version |-> tls.version, expiry |-> tls.cert.notAfter]

\* the SSL check (lines 231-242)
ssl_check(tls) ==
    IF tls_failed(tls) THEN SslError
    ELSE [version |-> tls.version, expiry |-> tls.cert.notAfter]

\* the robots.txt check (lines 244-255)
robots_check(robots) ==
    IF Raised(robots) THEN [exists |-> FALSE]
    ELSE [exists |-> TRUE, allowed |-> robots.val.allowed,
          crawl_delay |-> robots.val.crawl_delay]

\* bool(w.creation_date): None and the empty list are false
truthy_date(cd) == ~(cd.type = "NoneType" \/ (cd.type = "list" /\ cd.items = <<>>))

\* the domain age (lines 256-266); whois_result is Raise(..) or Ok([creation_date |-> ..])
domain_age_of(whois_result, now) ==
    IF Raised(whois_result) THEN None
    ELSE LET cd == whois_result.val.creation_date
         IN  IF ~truthy_date(cd) THEN None
             ELSE IF cd.type = "list" THEN Some(days(now - cd.items[1]))
             ELSE Some(days(now - cd.date))

check_mobile_friendly(html) ==
    \E k \in 1..Len(html.metas) :
        html.metas[k].name = Some(<<"v", "i", "e", "w", "p", "o", "r", "t">>)

common_paths == << "/sitemap.xml", "/sitemap_index.xml" >>

\* sitemaps[k] is what the GET of common_paths[k] met
check_sitemap(domain, sitemaps) ==
    [ path \in { common_paths[k] : k \in 1..Len(common_paths) } |->
        LET k == CHOOSE j \in 1..Len(common_paths) : common_paths[j] = path
        IN  IF Raised(sitemaps[k]) THEN "Error checking"
            ELSE IF sitemaps[k].val = 200 THEN "Found" ELSE "Not found" ]

\* returns [result |-> Ok(TechnicalAnalysis) or Raise(..), log |-> the calls made];
\* page is Raise(..) or Ok([elapsed, body, headers]), what requests.get(url) met
analyze_technical(url, page, now, tls, robots, whois_result, sitemaps) ==
    LET domain == netloc(url) IN
    IF Raised(page)
    THEN [ result |-> Raise(page.exc), log |-> << NetCall("GET", url, page) >> ]
    ELSE
      [ log |-> << NetCall("GET", url, page), NetCall("TLS", domain, tls),
                   NetCall("ROBOTS", domain, robots),
                   NetCall("WHOIS", domain, whois_result) >>
                \o [k \in 1..Len(common_paths) |->
                       NetCall("GET", common_paths[k], sitemaps[k])],
        result |->
          Ok([ load_time |-> page.val.elapsed,
               page_size |-> SoupStrLen(page.val.body),
               ssl_info |-> ssl_check(tls),
               mobile_friendly |-> check_mobile_friendly(page.val.body),
               robots_txt |-> robots_check(robots),
               sitemap_status |-> check_sitemap(domain, sitemaps),
               domain_age |-> domain_age_of(whois_result, now),
               server_info |-> [ server |-> get(page.val.headers, "server"),
                                 powered_by |-> get(page.val.headers, "x-powered-by") ] ]) ]

----------------------------------------------------------------------------
(* analyze_meta (lines 282-301) *)

\* str.split(sep) for a one-character separator: empty pieces are kept
RECURSIVE SplitOn(_, _, _, _)
SplitOn(s, sep, cur, acc) ==
    IF s = <<>> THEN Append(acc, cur)
    ELSE IF Head(s) = sep THEN SplitOn(Tail(s), sep, <<>>, Append(acc, cur))
    ELSE SplitOn(Tail(s), sep, Append(cur, Head(s)), acc)

RECURSIVE lstrip(_)
lstrip(s) == IF s # <<>> /\ Head(s) \in Whitespace THEN lstrip(Tail(s)) ELSE s

RECURSIVE rstrip(_)
rstrip(s) ==
    IF s # <<>> /\ s[Len(s)] \in Whitespace THEN rstrip(SubSeq(s, 1, Len(s) - 1)) ELSE s

strip(s) == rstrip(lstrip(s))

\* tag.get('content', ''): the attribute, or '' when the tag has none
content_of(tag) == IF tag.content.isNone THEN <<>> ELSE tag.content.v

\* the og:/twitter: dictionaries: a later tag overwrites an earlier one
tags_with(sp, attr, prefix) ==
    LET has(k) == ~sp.metas[k][attr].isNone /\ StartsWith(sp.metas[k][attr].v, prefix)
        keys == { sp.metas[k][attr].v : k \in { j \in 1..Len(sp.metas) : has(j) } }
    IN  [ key \in keys |->
            LET last == CHOOSE k \in 1..Len(sp.metas) :
                           /\ has(k) /\ sp.metas[k][attr].v = key
                           /\ \A j \in (k + 1)..Len(sp.metas) :
                                  ~(has(j) /\ sp.metas[j][attr].v = key)
            IN  sp.metas[last].content ]

\* returns Ok(MetaAnalysis), or Raise("TypeError") from len(soup.title.string)
\* when the title element has no single string
analyze_meta(sp) ==
    IF ~sp.title.isNone /\ sp.title.v.string.isNone THEN Raise("TypeError")
    ELSE
      Ok([ title |-> IF sp.title.isNone THEN <<>> ELSE sp.title.v.string.v,
           title_length |-> IF sp.title.isNone THEN 0 ELSE Len(sp.title.v.string.v),
           meta_description |->
               IF sp.description.isNone THEN <<>> ELSE content_of(sp.description.v),
           meta_description_length |->
               IF sp.description.isNone THEN 0 ELSE Len(content_of(sp.description.v)),
           meta_keywords |->
               IF sp.keywords.isNone THEN <<>>
               ELSE LET parts == SplitOn(content_of(sp.keywords.v), ",", <<>>, <<>>)
                    IN  [k \in 1..Len(parts) |-> strip(parts[k])],
           canonical_url |->
               IF sp.canonical.isNone THEN None ELSE sp.canonical.v.href,
           og_tags |-> tags_with(sp, "property", <<"o", "g", ":">>),
           twitter_tags |->
               tags_with(sp, "name", <<"t", "w", "i", "t", "t", "e", "r", ":">>) ])

----------------------------------------------------------------------------
(* analyze_images (lines 303-336) *)

Digits == << "0", "1", "2", "3", "4", "5", "6", "7", "8", "9" >>

\* int(s) for a header value: Ok(n) for a run of decimal digits, else ValueError
RECURSIVE ParseDigits(_, _)
ParseDigits(s, acc) ==
    IF s = <<>> THEN Ok(acc)
    ELSE IF \E d \in 1..10 : Digits[d] = Head(s)
         THEN ParseDigits(Tail(s),
                          10 * acc + (CHOOSE d \in 1..10 : Digits[d] = Head(s)) - 1)
         ELSE Raise("ValueError")

int(s) == IF s = <<>> THEN Raise("ValueError") ELSE ParseDigits(s, 0)

\* content_type.split('/')[-1]
last_segment(s) ==
    LET parts == SplitOn(s, "/", <<>>, <<>>) IN parts[Len(parts)]

\* src if src.startswith('http') else f"{url}/{src}"
probe_target(url, src) ==
    IF StartsWith(src, <<"h", "t", "t", "p">>) THEN src ELSE url \o <<"/">> \o src

\* a plausible slip: the size test is >= instead of >
tally_probe_inclusive(st, src, outcome) ==
    IF Raised(outcome) THEN st
    ELSE LET length == get(outcome.val, "content-length")
             size == IF length.isNone THEN Ok(0) ELSE int(length.v)
             ctype == get(outcome.val, "content-type")
             format == last_segment(IF ctype.isNone THEN <<>> ELSE ctype.v)
         IN  IF Raised(size) THEN st
             ELSE [st EXCEPT
                     !.large_images = IF size.val >= 100000
                                      THEN Append(@, [src |-> src, size |-> size.val])
                                      ELSE @,
                     !.image_formats =
                         [f \in DOMAIN @ \cup {format} |->
                             (IF f \in DOMAIN @ THEN @[f] ELSE 0)
                             + (IF f = format THEN 1 ELSE 0)]]

\* the try/except of the loop (lines 317-329): outcome is Raise(..) or
\* Ok(headers) of requests.head
tally_probe(st, src, outcome) ==
    IF Raised(outcome) THEN st
    ELSE LET length == get(outcome.val, "content-length")
             size == IF length.isNone THEN Ok(0) ELSE int(length.v)
             ctype == get(outcome.val, "content-type")
             format == last_segment(IF ctype.isNone THEN <<>> ELSE ctype.v)
         IN  IF Raised(size) THEN st
             ELSE [st EXCEPT
                     !.large_images = IF size.val > 100000
                                      THEN Append(@, [src |-> src, size |-> size.val])
                                      ELSE @,
                     !.image_formats =
                         [f \in DOMAIN @ \cup {format} |->
                             (IF f \in DOMAIN @ THEN @[f] ELSE 0)
                             + (IF f = format THEN 1 ELSE 0)]]

\* one pass of the loop over the images (lines 309-329)
inspect_image(st, img, url, outcome) ==
    LET src == IF img.src.isNone THEN <<>> ELSE img.src.v IN
    IF src = <<>> THEN st
    ELSE LET noted == IF img.alt.isNone \/ img.alt.v = <<>>
                      THEN [st EXCEPT !.images_without_alt = Append(@, src)]
                      ELSE st
             logged == [noted EXCEPT
                          !.log = Append(@, HeadCall(probe_target(url, src), outcome))]
         IN  tally_probe(logged, src, outcome)

\* the loop; head[k] is what the network answers if image k is probed
RECURSIVE image_loop(_, _, _, _, _)
image_loop(st, imgs, k, url, head) ==
    IF k > Len(imgs) THEN st
    ELSE image_loop(inspect_image(st, imgs[k], url, head[k]), imgs, k + 1, url, head)

\* returns [result |-> Ok(ImageAnalysis), log |-> the HEAD calls made]
analyze_images(sp, url, head) ==
    LET st == image_loop([images_without_alt |-> <<>>, large_images |-> <<>>,
                          image_formats |-> <<>>, log |-> <<>>],
                         sp.imgs, 1, url, head)
    IN  [ log |-> st.log,
          result |-> Ok([ total_images |-> Len(sp.imgs),
                          images_without_alt |-> st.images_without_alt,
                          large_images |-> st.large_images,
                          image_formats |-> st.image_formats ]) ]

----------------------------------------------------------------------------
(* The environment: the requests made and what the network answers *)

Http == << "h", "t", "t", "p", ":", "/", "/" >>

\* "http://xy" and "http://x/q": the second domain is a substring of the first
Urls == { Http \o <<"x", "y">>, Http \o <<"x", "/", "q">> }

\* "http://xy/a", "http://z", "/p" (no scheme) and "http://yx"
Hrefs == { Http \o <<"x", "y", "/", "a">>, Http \o <<"z">>, <<"/", "p">>,
           Http \o <<"y", "x">> }

AnchorKinds == { [href |-> None] } \cup { [href |-> Some(h)] : h \in Hrefs }

\* requests.head(href, timeout=5): a status, or an exception; a href without
\* a scheme never reaches the network (MissingSchema)
HeadOutcomes(href) ==
    IF StartsWith(href, Http)
    THEN { Ok(200), Ok(400), Ok(404), Raise("Timeout") }
    ELSE { Raise("MissingSchema") }

\* the answers to the probes of a list of links: a link that is not probed
\* is given no answer of its own
HeadAnswers(links, domain) ==
    { head \in [1..Len(links) -> UNION { HeadOutcomes(links[k]) : k \in 1..Len(links) }] :
        \A k \in 1..Len(links) :
            IF Contains(links[k], domain)
            THEN head[k] = CHOOSE o \in HeadOutcomes(links[k]) : TRUE
            ELSE head[k] \in HeadOutcomes(links[k]) }

Sentence == << "a", " ", "b", "e", "." >>

ContentSoups ==
    { [EmptySoup EXCEPT !.anchors = as, !.strings = ss, !.headings = hs] :
        as \in SeqsUpTo(AnchorKinds, MaxLinks),
        ss \in { <<>>, << Sentence >> },
        hs \in { <<>>, << [level |-> 1, text |-> <<"a">>] >> } }

PngHeaders(length) ==
    ("content-length" :> length) @@ ("content-type" :> <<"i", "/", "p", "n", "g">>)

\* requests.head(image): an exception, or the response headers
ImageOutcomes ==
    { Raise("ConnectionError"), Ok(<<>>),
      Ok(PngHeaders(<<"1", "0", "0", "0", "0", "0">>)),
      Ok(PngHeaders(<<"1", "0", "0", "0", "0", "1">>)),
      Ok(PngHeaders(<<"1", "x">>)),
      Ok(("content-length" :> <<"1", "0", "0", "0", "0", "1">>)
            @@ ("content-type" :> <<"i", "/", "g", "i", "f">>)) }

ImgKinds ==
    { [src |-> s, alt |-> a] :
        s \in { None, Some(Http \o <<"i">>), Some(<<"i">>) },
        a \in { None, Some(<<>>), Some(<<"t">>) } }

\* the answers to the probes of a list of images: an image without src is
\* not probed and is given no answer of its own
ImageAnswers(imgs, outcomes) ==
    { head \in [1..Len(imgs) -> outcomes] :
        \A k \in 1..Len(imgs) :
            (imgs[k].src.isNone \/ imgs[k].src.v = <<>>)
                => head[k] = CHOOSE o \in outcomes : TRUE }

ImageSoups == { [EmptySoup EXCEPT !.imgs = is] : is \in SeqsUpTo(ImgKinds, MaxImgs) }

TitleKinds ==
    { None, Some([string |-> None]),
      Some([string |-> Some(<<"H", "e", "l", "l", "o">>)]) }

ContentAttrs ==
    { None, Some([content |-> None]), Some([content |-> Some(<<>>)]),
      Some([content |-> Some(<<"a", ",", " ", "b">>)]) }

CanonicalKinds ==
    { None, Some([href |-> None]), Some([href |-> Some(<<"/", "c">>)]) }

Viewport == [property |-> None, content |-> Some(<<"w">>),
             name |-> Some(<<"v", "i", "e", "w", "p", "o", "r", "t">>)]

MetaKinds ==
    { [property |-> Some(<<"o", "g", ":", "t">>), name |-> None,
       content |-> Some(<<"T">>)],
      [property |-> None, name |-> Some(<<"t", "w", "i", "t", "t", "e", "r", ":", "c">>),
       content |-> None],
      Viewport }

MetaSoups ==
    { [EmptySoup EXCEPT !.title = t, !.description = d, !.keywords = k,
                        !.canonical = c, !.metas = ms] :
        t \in TitleKinds, d \in ContentAttrs, k \in ContentAttrs,
        c \in CanonicalKinds, ms \in SeqsUpTo(MetaKinds, MaxMetas) }

\* requests.get(url) inside analyze_technical: the time it took (ms), the body, the headers
PageOutcomes ==
    { Raise("ConnectionError") } \cup
    { Ok([elapsed |-> e, body |-> b, headers |-> h]) :
        e \in { 2999, 3000, 3001 },
        b \in { EmptySoup, [EmptySoup EXCEPT !.metas = << Viewport >>] },
        h \in { ("server" :> "nginx") } }

TlsOk == [connect |-> "", handshake |-> "", version |-> "TLSv1.3",
          cert |-> [notAfter |-> "Jan  1 00:00:00 2030 GMT"]]

TlsOutcomes ==
    { TlsOk,
      [TlsOk EXCEPT !.version = "TLSv1.2"],
      [TlsOk EXCEPT !.connect = "ConnectionRefusedError"],
      [TlsOk EXCEPT !.handshake = "SSLCertVerificationError"],
      [TlsOk EXCEPT !.handshake = "SSLError"],
      [TlsOk EXCEPT !.cert = <<>>] }

RobotsOutcomes ==
    { Raise("ConnectionError"),
      Ok([allowed |-> TRUE, crawl_delay |-> None]),
      Ok([allowed |-> FALSE, crawl_delay |-> Some(10)]) }

SitemapOutcomes == { Raise("Timeout"), Ok(200), Ok(404) }

\* instants, in half days
Dates == { 0, 3, 6 }
Clock == { 9 }

CreationDates ==
    { [type |-> "NoneType"] }
    \cup { [type |-> "datetime", date |-> d] : d \in Dates }
    \cup { [type |-> "list", items |-> ds] : ds \in SeqsUpTo(Dates, MaxDates) }

WhoisOutcomes ==
    { Raise("PywhoisError") } \cup { Ok([creation_date |-> cd]) : cd \in CreationDates }

----------------------------------------------------------------------------
(* State machine *)

Init ==
    /\ pc = "idle"
    /\ url_input = <<>>
    /\ soup = EmptySoup
    /\ content = Unset
    /\ technical = Unset
    /\ meta = Unset
    /\ images = Unset
    /\ response = Unset
    /\ net_log = <<>>
    /\ text = <<>>
    /\ readability = Zero
    /\ score = 0
    /\ clock = 0

\* calculate_readability is called on a corpus
ReadabilityAlphabet == { "a", "e", "E", "b", ".", "!", " " }

ReadabilityCall ==
    /\ pc = "idle"
    /\ \E t \in SeqsUpTo(ReadabilityAlphabet, MaxLen) :
          /\ text' = t
          /\ readability' = calculate_readability(t)
    /\ pc' = "readability"
    /\ UNCHANGED << url_input, soup, content, technical, meta, images, response,
                    net_log, score, clock >>

SpecReadability == Init /\ [][ReadabilityCall]_vars

\* Sub-report values given to the scorer
ContentValues ==
    { [ word_count |-> w, keyword_density |-> <<>>, readability_score |-> Zero,
        text_html_ratio |-> Rational(1, 2), heading_structure |-> [i \in 1..6 |-> <<>>],
        internal_links |-> <<>>, external_links |-> b, broken_links |-> b ] :
        w \in { 0, 299, 300 }, b \in { <<>>, << Http \o <<"z">> >> } }

TechnicalValues ==
    { [ load_time |-> l, page_size |-> 0, ssl_info |-> ssl_check(tls),
        mobile_friendly |-> mf, robots_txt |-> [exists |-> FALSE],
        sitemap_status |-> check_sitemap(<<"x">>, << Ok(200), Ok(404) >>),
        domain_age |-> None, server_info |-> [server |-> None, powered_by |-> None] ] :
        l \in { 0, 3000, 3001 }, mf \in BOOLEAN,
        tls \in { TlsOk, [TlsOk EXCEPT !.handshake = "SSLError"] } }

MetaValues ==
    { [ title |-> <<>>, title_length |-> 0, meta_description |-> d,
        meta_description_length |-> Len(d), meta_keywords |-> <<>>,
        canonical_url |-> None, og_tags |-> <<>>, twitter_tags |-> <<>> ] :
        d \in { <<>>, <<"d">> } }

ImageValues ==
    { [ total_images |-> 1, images_without_alt |-> a, large_images |-> <<>>,
        image_formats |-> <<>> ] :
        a \in { <<>>, << <<"i">> >> } }

\* calculate_seo_score is called on four sub-reports
ScoreCall ==
    /\ pc = "idle"
    /\ \E c \in ContentValues, t \in TechnicalValues, m \in MetaValues, i \in ImageValues :
          /\ content' = Ok(c)
          /\ technical' = Ok(t)
          /\ meta' = Ok(m)
          /\ images' = Ok(i)
          /\ score' = calculate_seo_score(c, t, m, i)
    /\ pc' = "scored"
    /\ UNCHANGED << url_input, soup, response, net_log, text, readability, clock >>

SpecScore == Init /\ [][ScoreCall]_vars

\* analyze_content is called on a document
ContentCall ==
    /\ pc = "idle"
    /\ \E url \in Urls, sp \in ContentSoups :
          \E head \in HeadAnswers(hrefs_of(sp), netloc(url)) :
              LET r == analyze_content(sp, url, head)
              IN  /\ url_input' = url
                  /\ soup' = sp
                  /\ content' = r.result
                  /\ net_log' = r.log
    /\ pc' = "content"
    /\ UNCHANGED << technical, meta, images, response, text, readability, score,
                    clock >>

SpecContent == Init /\ [][ContentCall]_vars

\* analyze_images is called on a document
ImagesCall ==
    /\ pc = "idle"
    /\ \E url \in Urls, sp \in ImageSoups :
          \E head \in ImageAnswers(sp.imgs, ImageOutcomes) :
              LET r == analyze_images(sp, url, head)
              IN  /\ url_input' = url
                  /\ soup' = sp
                  /\ images' = r.result
                  /\ net_log' = r.log
    /\ pc' = "images"
    /\ UNCHANGED << content, technical, meta, response, text, readability, score,
                    clock >>

SpecImages == Init /\ [][ImagesCall]_vars

\* analyze_meta is called on a document
MetaCall ==
    /\ pc = "idle"
    /\ \E sp \in MetaSoups :
          /\ soup' = sp
          /\ meta' = analyze_meta(sp)
    /\ pc' = "meta"
    /\ UNCHANGED << url_input, content, technical, images, response, net_log, text,
                    readability, score, clock >>

SpecMeta == Init /\ [][MetaCall]_vars

\* analyze_technical is called on a URL
TechnicalCall ==
    /\ pc = "idle"
    /\ \E url \in Urls, page \in PageOutcomes, now \in Clock :
          \* the probes are made only when the page GET has returned
          \E tls \in (IF Raised(page) THEN { TlsOk } ELSE TlsOutcomes),
             robots \in (IF Raised(page) THEN { Raise("") } ELSE RobotsOutcomes),
             whois_result \in (IF Raised(page) THEN { Raise("") } ELSE WhoisOutcomes),
             sitemaps \in (IF Raised(page) THEN { <<>> }
                           ELSE [1..Len(common_paths) -> SitemapOutcomes]) :
             LET r == analyze_technical(url, page, now, tls, robots, whois_result,
                                        sitemaps)
             IN  /\ url_input' = url
                 /\ clock' = now
                 /\ technical' = r.result
                 /\ net_log' = r.log
    /\ pc' = "technical"
    /\ UNCHANGED << soup, content, meta, images, response, text, readability, score >>

SpecTechnical == Init /\ [][TechnicalCall]_vars

----------------------------------------------------------------------------
(* analyze_url, the /analyze handler (lines 155-182) *)

HTTPException(detail) == [status_code |-> 400, detail |-> detail]

SEOReport(url, c, t, m, i, timestamp) ==
    [ status_code |-> 200, url |-> url, content |-> c, technical |-> t, meta |-> m,
      images |-> i, timestamp |-> timestamp,
      report_text |-> generate_seo_report(url, c, t, m, i) ]

\* the documents requested through the handler
PipelineSoups ==
    { [EmptySoup EXCEPT !.title = t, !.anchors = as, !.imgs = is, !.strings = ss] :
        t \in TitleKinds,
        as \in { <<>>, << [href |-> Some(Http \o <<"z">>)] >>,
                 << [href |-> Some(Http \o <<"x", "y", "/", "a">>)],
                    [href |-> Some(Http \o <<"z">>)] >> },
        is \in { <<>>, << [src |-> Some(<<"i">>), alt |-> None] >> },
        ss \in { <<>>, << Sentence >> } }

\* the handler returns or raises: the state it leaves behind
Finish(sp, c, t, m, i, resp, log) ==
    /\ soup' = sp
    /\ content' = c
    /\ technical' = t
    /\ meta' = m
    /\ images' = i
    /\ response' = resp
    /\ net_log' = log

\* the handler from analyze_technical on, once analyze_content has returned c
AfterContent(url, sp, c, now, log) ==
    \E page \in { Raise("ConnectionError"),
                  Ok([elapsed |-> 3001, body |-> sp, headers |-> <<>>]) } :
       \/ /\ Raised(page)
          /\ LET t == analyze_technical(url, page, now, TlsOk, Raise(""), Raise(""), <<>>)
             IN  Finish(sp, c, t.result, Unset, Unset, HTTPException(t.result.exc),
                        log \o t.log)
       \/ /\ ~Raised(page)
          /\ \E tls \in { TlsOk, [TlsOk EXCEPT !.handshake = "SSLCertVerificationError"] },
                robots \in { Raise("ConnectionError"),
                             Ok([allowed |-> TRUE, crawl_delay |-> None]) },
                whois_result \in { Raise("PywhoisError"),
                                   Ok([creation_date |-> [type |-> "datetime", date |-> 3]]) },
                sitemaps \in [1..Len(common_paths) -> { Raise("Timeout"), Ok(200) }] :
                LET t == analyze_technical(url, page, now, tls, robots, whois_result,
                                           sitemaps)
                    m == analyze_meta(sp)
                IN  IF Raised(m)
                    THEN Finish(sp, c, t.result, m, Unset, HTTPException(m.exc),
                                log \o t.log)
                    ELSE \E ihead \in ImageAnswers(sp.imgs,
                                 { Raise("ConnectionError"),
                                   Ok(PngHeaders(<<"1", "0", "0", "0", "0", "1">>)) }) :
                            LET i == analyze_images(sp, url, ihead)
                            IN  Finish(sp, c, t.result, m, i.result,
                                       SEOReport(url, c.val, t.result.val, m.val,
                                                 i.result.val, now),
                                       log \o t.log \o i.log)

analyze_url ==
    /\ pc = "idle"
    /\ \E url \in Urls, now \in Clock :
          /\ url_input' = url
          /\ clock' = now
          /\ \E fetched \in { Raise("ConnectionError") } \cup
                            { Ok(sp) : sp \in PipelineSoups } :
                LET first == << NetCall("GET", url, fetched) >> IN
                IF Raised(fetched)
                THEN Finish(EmptySoup, Unset, Unset, Unset, Unset,
                            HTTPException(fetched.exc), first)
                ELSE LET sp == fetched.val IN
                     \E head \in HeadAnswers(hrefs_of(sp), netloc(url)) :
                        LET c == analyze_content(sp, url, head)
                        IN  IF Raised(c.result)
                            THEN Finish(sp, c.result, Unset, Unset, Unset,
                                        HTTPException(c.result.exc), first \o c.log)
                            ELSE AfterContent(url, sp, c.result, now, first \o c.log)
    /\ pc' = "done"
    /\ UNCHANGED << text, readability, score >>

Next == analyze_url

Spec == Init /\ [][Next]_vars

----------------------------------------------------------------------------
(* Properties *)

\* the entries of net_log that are GETs of the page itself
PageGets == SelectSeq(net_log, LAMBDA e : e.call = "GET" /\ e.target = url_input)

\* the one entry of net_log of the given kind
Entry(call) == net_log[CHOOSE k \in 1..Len(net_log) : net_log[k].call = call]

\* C1: every request ends either with a complete SEOReport holding the four
\* sub-reports, when no page GET failed, or with one HTTP 400 error and no
\* report, when a page GET failed; nothing but a failed page GET makes it an error.
C1_ReportUnlessPageGetFails ==
    pc = "done" =>
        LET failed == \E k \in 1..Len(PageGets) : Raised(PageGets[k].outcome)
        IN  /\ response.status_code \in { 200, 400 }
            /\ failed <=> response.status_code = 400
            /\ response.status_code = 200 =>
                  /\ ~Raised(content) /\ response.content = content.val
                  /\ ~Raised(technical) /\ response.technical = technical.val
                  /\ ~Raised(meta) /\ response.meta = meta.val
                  /\ ~Raised(images) /\ response.images = images.val

\* C2: calculate_seo_score returns an integer between 0 and 100, whatever
\* the four sub-reports hold.
C2_ScoreWithinRange ==
    pc = "scored" => score \in 0..100

\* C2 witness: a scored set of sub-reports on which every penalty applies
C2_Witness ==
    /\ pc = "scored"
    /\ technical.val.load_time > 3000 /\ ~technical.val.mobile_friendly
    /\ "error" \in DOMAIN technical.val.ssl_info
    /\ content.val.word_count < 300 /\ content.val.broken_links # <<>>
    /\ meta.val.meta_description = <<>>
    /\ images.val.images_without_alt # <<>>
    /\ score = 40

\* C3: after analyze_technical, ssl_info is exactly the error value when the
\* TLS probe failed and exactly {version, expiry} when it succeeded, never a
\* mix; and swapping the error value for the success value in otherwise equal
\* sub-reports changes the score by exactly 10.
C3_SslTaggedAndWorthTen ==
    (pc = "technical" /\ ~Raised(technical)) =>
        LET tls == Entry("TLS").outcome
            t == technical.val
            failed == \/ tls.connect # ""
                      \/ tls.handshake # ""
                      \/ "notAfter" \notin DOMAIN tls.cert
            error == [error |-> "SSL certificate issue detected"]
        IN  /\ failed => t.ssl_info = error
            /\ ~failed => t.ssl_info = [version |-> tls.version,
                                        expiry |-> tls.cert.notAfter]
            /\ \A c \in ContentValues, m \in MetaValues, i \in ImageValues :
                  calculate_seo_score(c, [t EXCEPT !.ssl_info = error], m, i)
                    = calculate_seo_score(c,
                          [t EXCEPT !.ssl_info = [version |-> "TLSv1.3",
                                                  expiry |-> "Jan  1 00:00:00 2030 GMT"]],
                          m, i) - 10

\* C3 witness: the handshake failed on the certificate and ssl_info is the error value
C3_Witness ==
    /\ pc = "technical" /\ ~Raised(technical)
    /\ Entry("TLS").outcome.handshake = "SSLCertVerificationError"
    /\ DOMAIN technical.val.ssl_info = { "error" }

\* C4: in the ContentReport every broken link is an external link, and no
\* href is both an internal and an external link.
C4_BrokenWithinExternalDisjointFromInternal ==
    (pc = "content" /\ ~Raised(content)) =>
        LET c == content.val
            Elems(q) == { q[k] : k \in 1..Len(q) }
        IN  /\ Elems(c.broken_links) \subseteq Elems(c.external_links)
            /\ Elems(c.internal_links) \cap Elems(c.external_links) = {}

\* C4 witness: a document with an internal link and a broken external link
C4_Witness ==
    /\ pc = "content" /\ ~Raised(content)
    /\ content.val.internal_links # <<>>
    /\ content.val.broken_links # <<>>
    /\ content.val.external_links = content.val.broken_links

\* C5: analyze_content probes every external link exactly once and no internal
\* link; a link is in broken_links exactly when its probe answered >= 400 or
\* raised; and a page whose only link is external and answers 404 has it in
\* external_links and broken_links and scores exactly 5 less than the same
\* page with the link answering below 400.
C5_ProbedOnceBrokenIffFailed ==
    (pc = "content" /\ ~Raised(content)) =>
        LET c == content.val
            bad(e) == IF "val" \in DOMAIN e.outcome THEN e.outcome.val >= 400 ELSE TRUE
            failures == SelectSeq(net_log, bad)
            links == hrefs_of(soup)
        IN  /\ Len(net_log) = Len(c.external_links)
            /\ \A k \in 1..Len(net_log) :
                  /\ net_log[k].call = "HEAD"
                  /\ net_log[k].target = c.external_links[k]
            /\ \A k \in 1..Len(net_log), j \in 1..Len(c.internal_links) :
                  net_log[k].target # c.internal_links[j]
            /\ Len(c.internal_links) + Len(c.external_links) = Len(links)
            /\ c.broken_links = [k \in 1..Len(failures) |-> failures[k].target]
            /\ (Len(links) = 1 /\ net_log = << HeadCall(links[1], Ok(404)) >>) =>
                  /\ c.external_links = links
                  /\ c.broken_links = links
                  /\ \A t \in TechnicalValues, m \in MetaValues, i \in ImageValues :
                        calculate_seo_score(c, t, m, i)
                          = calculate_seo_score(
                                analyze_content(soup, url_input, << Ok(200) >>).result.val,
                                t, m, i) - 5

\* C5 witness: the only link is external, was probed once and answered 404
C5_Witness ==
    /\ pc = "content" /\ ~Raised(content)
    /\ Len(hrefs_of(soup)) = 1
    /\ Len(net_log) = 1 /\ net_log[1].outcome = Ok(404)
    /\ content.val.broken_links = hrefs_of(soup)

\* C6: in the ImageReport images_without_alt has at most total_images entries
\* and every large image is larger than 100000; an image whose probe fails is
\* in neither large_images nor image_formats, yet it is counted in
\* total_images and listed in images_without_alt when it has no alt text.
C6_ImageReportBounds ==
    pc = "images" =>
        LET r == images.val
            probed == SelectSeq(soup.imgs, LAMBDA g : "v" \in DOMAIN g.src /\ g.src.v # <<>>)
            no_alt == SelectSeq(probed, LAMBDA g : "v" \in DOMAIN g.alt => g.alt.v = <<>>)
            answered == Cardinality({ k \in 1..Len(net_log) :
                                        "val" \in DOMAIN net_log[k].outcome })
        IN  /\ ~Raised(images)
            /\ r.total_images = Len(soup.imgs)
            /\ Len(r.images_without_alt) <= r.total_images
            /\ \A k \in 1..Len(r.large_images) : r.large_images[k].size > 100000
            /\ Len(net_log) = Len(probed)
            /\ r.images_without_alt = [k \in 1..Len(no_alt) |-> no_alt[k].src.v]
            /\ Len(r.large_images) <= answered
            /\ SumValues(r.image_formats) <= answered

\* C6 witness: two images without alt text, one whose probe raised and one
\* that is large
C6_Witness ==
    /\ pc = "images"
    /\ Len(soup.imgs) = 2
    /\ Len(net_log) = 2
    /\ "val" \notin DOMAIN net_log[1].outcome
    /\ Len(images.val.images_without_alt) = 2
    /\ Len(images.val.large_images) = 1
    /\ SumValues(images.val.image_formats) = 1

\* C7: analyze_meta never fails: whether the title, the description, the
\* keywords and the canonical link are absent, empty or given, it returns a
\* MetaReport whose title is a string of length title_length ("" and 0
\* without a title), whose meta_description is a string of length
\* meta_description_length ("" and 0 without the tag), and whose
\* meta_keywords is empty without the keywords tag.
C7_MetaNeverFails ==
    pc = "meta" =>
        /\ ~Raised(meta)
        /\ meta.val.title_length = Len(meta.val.title)
        /\ soup.title = None => (meta.val.title = <<>> /\ meta.val.title_length = 0)
        /\ meta.val.meta_description_length = Len(meta.val.meta_description)
        /\ soup.description = None =>
              (meta.val.meta_description = <<>> /\ meta.val.meta_description_length = 0)
        /\ soup.keywords = None => meta.val.meta_keywords = <<>>

\* the corpus has no word: it holds nothing but whitespace
NoWords == \A k \in 1..Len(text) : text[k] = " "

\* the corpus has no sentence delimiter
NoDelimiters == \A k \in 1..Len(text) : text[k] \notin { ".", "!", "?" }

\* C8, as stated: calculate_readability returns exactly 0 for every corpus
\* without words and for every corpus without sentence delimiters.
C8_ZeroWithoutWordsOrDelimiters ==
    (pc = "readability" /\ (NoWords \/ NoDelimiters)) => readability = Zero

\* C8, amended: calculate_readability returns exactly 0 for every corpus
\* without words; a corpus with words and without sentence delimiters counts
\* as one sentence and gets 206.835 - 1.015 * words - 84.6 * syllables / words.
C8_ZeroWithoutWords ==
    pc = "readability" =>
        /\ NoWords => readability = Zero
        /\ (~NoWords /\ NoDelimiters) =>
              LET ws == split(text)
                  syllables == SumSeq([k \in 1..Len(ws) |-> count_syllables(ws[k])])
              IN  /\ readability.den = 1000 * Len(ws)
                  /\ readability.num = 206835 * Len(ws) - 1015 * Len(ws) * Len(ws)
                                         - 84600 * syllables

\* C8 witness: a corpus of one word and no delimiter whose readability is not 0
C8_Witness ==
    /\ pc = "readability"
    /\ ~NoWords /\ NoDelimiters
    /\ readability.num # 0

\* C9: a fetched document whose serialized form is empty still gets a
\* ContentReport with a defined text_html_ratio, and the request does not end
\* in an error raised by the ratio.
C9_RatioGuarded ==
    (pc = "done" /\ ~Raised(net_log[1].outcome) /\ SoupStrLen(soup) = 0) =>
        /\ ~Raised(content)
        /\ content.val.text_html_ratio.den # 0
        /\ ~(response.status_code = 400 /\ response.detail = "ZeroDivisionError")

\* the smallest element of a non-empty sequence of instants
Earliest(ds) == CHOOSE d \in { ds[k] : k \in 1..Len(ds) } :
                    \A k \in 1..Len(ds) : d <= ds[k]

\* C10: after analyze_technical, domain_age is the whole days from the
\* earliest date of a creation_date list to now, whatever the order of the
\* list, the days since a single creation date, and None when the lookup
\* failed or gave no creation date.
C10_AgeFromEarliestDate ==
    (pc = "technical" /\ ~Raised(technical)) =>
        LET w == Entry("WHOIS").outcome
            age == technical.val.domain_age
        IN  IF Raised(w) THEN age = None
            ELSE LET cd == w.val.creation_date
                 IN  CASE cd.type = "NoneType" -> age = None
                       [] cd.type = "datetime" -> age = Some((clock - cd.date) \div 2)
                       [] cd.type = "list" ->
                            IF cd.items = <<>> THEN age = None
                            ELSE age = Some((clock - Earliest(cd.items)) \div 2)

====
